---- MODULE Spec2Model ----
(***************************************************************************)
(* A model of org-rs, src/src/lib.rs: DocumentParser (new, todo_keywords,  *)
(* parse).  A string is a sequence of one-character strings; an            *)
(* Option<T> is a sequence of length 0 (None) or 1 (Some).  Offsets into   *)
(* strings are byte offsets, as in Rust: the character Wide takes two      *)
(* bytes, every other character of the model one.                          *)
(***************************************************************************)
EXTENDS Integers, Sequences, FiniteSets, TLC

VARIABLES text, todo_keywords, pc, pos, captures, headlines, document

vars == <<text, todo_keywords, pc, pos, captures, headlines, document>>

\* ------------------------------------------------------------ bounds, inputs

\* The longest text handed to parse, counted in fragments.
MaxFrags == 4

NL == "\n"
\* The character U+00E9 (e with acute accent), two bytes in UTF-8.
Wide == "U+00E9"

None == <<>>
Some(x) == <<x>>

\* The pieces the input texts are made of.
Fragments ==
  { <<"*">>, <<" ">>, <<NL>>, <<"T">>, <<":">>, <<Wide>>,
    <<"[", "#", "A", "]">>, <<"*", " ", "T", " ">> }

RECURSIVE FragSeqs(_)
FragSeqs(n) ==
  IF n = 0 THEN { <<>> }
  ELSE LET S == FragSeqs(n - 1) IN S \cup { s \o f : s \in S, f \in Fragments }

Texts == FragSeqs(MaxFrags)

\* The keyword lists handed to todo_keywords: one keyword, and a list with a
\* keyword longer than most titles, a two-byte keyword and the empty keyword.
KeywordLists ==
  { <<>>, << <<"T">> >>, << <<"T", "T", "T">>, <<Wide>>, <<>> >> }

\* ------------------------------------------------------------ strings (str)

Width(c) == IF c = Wide THEN 2 ELSE 1

RECURSIVE ByteLen(_)
ByteLen(s) == IF s = <<>> THEN 0 ELSE Width(Head(s)) + ByteLen(Tail(s))

\* The byte offset at which character i of s starts (i in 1..Len(s)+1).
ByteOff(s, i) == ByteLen(SubSeq(s, 1, i - 1))

IsCharBoundary(s, b) == \E i \in 1..(Len(s) + 1) : ByteOff(s, i) = b

\* s[a..b] does not panic.
SliceOk(s, a, b) == a <= b /\ IsCharBoundary(s, a) /\ IsCharBoundary(s, b)

\* s[a..b], for SliceOk(s, a, b).
Slice(s, a, b) ==
  LET i == CHOOSE k \in 1..(Len(s) + 1) : ByteOff(s, k) = a
      j == CHOOSE k \in 1..(Len(s) + 1) : ByteOff(s, k) = b
  IN  SubSeq(s, i, j - 1)

IsSpace(c) == c \in {" ", NL}

RECURSIVE TrimStart(_)
TrimStart(s) ==
  IF s # <<>> /\ IsSpace(Head(s)) THEN TrimStart(Tail(s)) ELSE s

RECURSIVE TrimEnd(_)
TrimEnd(s) ==
  IF s # <<>> /\ IsSpace(s[Len(s)]) THEN TrimEnd(SubSeq(s, 1, Len(s) - 1)) ELSE s

Trim(s) == TrimEnd(TrimStart(s))

StartsWith(s, p) == Len(p) <= Len(s) /\ SubSeq(s, 1, Len(p)) = p

\* s.split(sep): the pieces between the separators, the empty ones included.
RECURSIVE Split(_, _)
Split(s, sep) ==
  IF \A i \in 1..Len(s) : s[i] # sep THEN << s >>
  ELSE LET i == CHOOSE k \in 1..Len(s) :
                  s[k] = sep /\ \A l \in 1..(k - 1) : s[l] # sep
       IN  << SubSeq(s, 1, i - 1) >> \o Split(SubSeq(s, i + 1, Len(s)), sep)

Min(S) == CHOOSE x \in S : \A y \in S : x <= y
Max(S) == CHOOSE x \in S : \A y \in S : x >= y

\* ------------------------------------------------------------ headline_matcher
\* Positions are character indices into text, 1..Len(text)+1; a span <<i, j>>
\* holds the characters i..j-1.

EndOfText == Len(text) + 1

IsStar(c) == c = "*"
IsNonSpace(c) == ~IsSpace(c)
IsDot(c) == c # NL
IsTagChar(c) == c \in {"T", "A", "#"}

\* (?m)^ and (?m)$
AtLineStart(p) == p = 1 \/ text[p - 1] = NL
AtLineEnd(p) == p = EndOfText \/ text[p] = NL

\* Whether c is in a character class of the pattern.
In(c, class) ==
  CASE class = "star"     -> IsStar(c)
    [] class = "space"    -> IsSpace(c)
    [] class = "nonspace" -> IsNonSpace(c)
    [] class = "dot"      -> IsDot(c)
    [] class = "tag"      -> IsTagChar(c)

\* The end of the longest run from p of characters of a class.
RunEnd(p, class) ==
  CHOOSE q \in p..EndOfText :
    /\ \A i \in p..(q - 1) : In(text[i], class)
    /\ q = EndOfText \/ ~In(text[q], class)

\* (?:[a-zA-Z0-9_@\#%]+:)+ from p: every position at which some number of
\* repetitions ends.
RECURSIVE TagRepeatEnds(_)
TagRepeatEnds(p) ==
  LET r == RunEnd(p, "tag")
  IN  IF r > p /\ r < EndOfText /\ text[r] = ":"
      THEN {r + 1} \cup TagRepeatEnds(r + 1)
      ELSE {}

\* (:(?:[a-zA-Z0-9_@\#%]+:)+) from p, then $: the ends of the tag block.
TagsEnds(p) ==
  IF p < EndOfText /\ text[p] = ":"
  THEN { e \in TagRepeatEnds(p + 1) : AtLineEnd(e) }
  ELSE {}

\* \s* from t, then the optional TAGS, then $: where \s* may end.
SpaceEnds(t) ==
  { u \in t..RunEnd(t, "space") : TagsEnds(u) # {} \/ AtLineEnd(u) }

\* (.*?)\s*(TAGS)?$ from p: the lazy title takes the fewest characters that
\* let the rest match, the greedy \s* the most, and TAGS is taken if it can be.
TitleTags(p) ==
  LET t == Min({ q \in p..RunEnd(p, "dot") : SpaceEnds(q) # {} })
      u == Max(SpaceEnds(t))
  IN  [title |-> <<p, t>>,
       tags  |-> IF TagsEnds(u) # {} THEN Some(<<u, Max(TagsEnds(u))>>) ELSE None,
       end   |-> IF TagsEnds(u) # {} THEN Max(TagsEnds(u)) ELSE u]

\* Whether the cookie \s\[\#(.)\]\s starts at k.
CookieAt(k) ==
  /\ k + 5 < EndOfText
  /\ IsSpace(text[k])
  /\ text[k + 1] = "["
  /\ text[k + 2] = "#"
  /\ IsDot(text[k + 3])
  /\ text[k + 4] = "]"
  /\ IsSpace(text[k + 5])

\* KeywordPriority with the keyword token optional: (?:(\S+)\s)?\[\#(.)\]\s
KeywordPriorityLoose(p) ==
  LET k == RunEnd(p, "nonspace")
  IN  IF k > p /\ CookieAt(k)
      THEN Some([keyword |-> Some(<<p, k>>), priority |-> <<k + 3, k + 4>>, end |-> k + 6])
      ELSE IF p > 1 /\ CookieAt(p - 1)
      THEN Some([keyword |-> None, priority |-> <<p + 2, p + 3>>, end |-> p + 5])
      ELSE None

\* (?:(\S+)\s\[\#(.)\]\s)? from p: the groups KEYWORD and PRIORITY and the
\* position after them, or None.  \S+ takes the whole run of non-space
\* characters: a shorter one is followed by a non-space character, not by \s.
KeywordPriority(p) ==
  LET k == RunEnd(p, "nonspace")
  IN  IF k > p /\ CookieAt(k)
      THEN Some([keyword |-> Some(<<p, k>>), priority |-> <<k + 3, k + 4>>, end |-> k + 6])
      ELSE None

\* A span of character positions as the byte offsets the regex reports.
Bytes(span) == <<ByteOff(text, span[1]), ByteOff(text, span[2])>>
OptBytes(o) == IF o = None THEN None ELSE Some(Bytes(o[1]))

\* ^(\*+)\s at s: the stars and the separator after them.
StarsAt(s) ==
  LET e == RunEnd(s, "star")
  IN  AtLineStart(s) /\ e > s /\ e < EndOfText /\ IsSpace(text[e])

\* The whole pattern from s, for StarsAt(s): the captures, as byte offsets.
\* The groups after the stars always match, the title up to the end of its
\* line at the latest.
MatchAt(s) ==
  LET e  == RunEnd(s, "star")
      kp == KeywordPriority(e + 1)
      tt == TitleTags(IF kp = None THEN e + 1 ELSE kp[1].end)
  IN  [span     |-> Bytes(<<s, tt.end>>),
       stars    |-> Bytes(<<s, e>>),
       keyword  |-> IF kp = None THEN None ELSE OptBytes(kp[1].keyword),
       priority |-> IF kp = None THEN None ELSE Some(Bytes(kp[1].priority)),
       title    |-> Some(Bytes(tt.title)),
       tags     |-> OptBytes(tt.tags),
       next     |-> tt.end]

\* captures_iter: where the leftmost match at or after p starts, if any.
FindFrom(p) ==
  LET S == { s \in p..Len(text) : StarsAt(s) }
  IN  IF S = {} THEN None ELSE Some(Min(S))

\* ------------------------------------------------------------ parse, per match

\* KwdLen counted in characters: kwd.chars().count()
KwdLenChars(kwd) == Len(kwd)

\* kwd.len()
KwdLen(kwd) == ByteLen(kwd)

\* The fallback scan: the first configured keyword the title starts with.
FirstKeyword(title, keywords) ==
  LET hits == { i \in 1..Len(keywords) : StartsWith(title, keywords[i]) }
  IN  IF hits = {} THEN None ELSE Some(keywords[Min(hits)])

\* TagsInner with the colons at the ends kept: x[0..x.len()]
TagsInnerWhole(x) == <<0, ByteLen(x)>>

\* The range of x[1..x.len()-1]
TagsInner(x) == <<1, ByteLen(x) - 1>>

\* Scans with the scan run for every match.
ScansAlways(m) == TRUE

\* Whether the keyword is scanned for in the title: the None arm of the match
\* on the KEYWORD group.
Scans(m) == m.keyword = None

\* text[x.start()..x.end()]
Group(x) == Slice(text, x[1], x[2])

\* Whether building the headline of match m panics: a slice out of range or
\* off a character boundary, or the unwrap of the first character of an empty
\* PRIORITY group.
Panics(m, keywords) ==
  LET raw == IF m.title = None THEN <<>> ELSE Trim(Group(m.title[1]))
      kw  == IF Scans(m) THEN FirstKeyword(raw, keywords) ELSE None
  IN  \/ \E g \in {m.stars} \cup {o[1] : o \in {m.keyword, m.priority, m.title, m.tags} \ {None}} :
            ~SliceOk(text, g[1], g[2])
      \/ m.priority # None /\ Group(m.priority[1]) = <<>>
      \/ kw # None /\ ~SliceOk(raw, KwdLen(kw[1]), ByteLen(raw))
      \/ /\ m.tags # None
         /\ LET x == Group(m.tags[1])
            IN  ~SliceOk(x, TagsInner(x)[1], TagsInner(x)[2])

\* The Headline pushed for match m, when building it does not panic.
NewHeadline(m, keywords) ==
  LET stars == Group(m.stars)
      raw   == IF m.title = None THEN <<>> ELSE Trim(Group(m.title[1]))
      kw    == IF Scans(m) THEN FirstKeyword(raw, keywords) ELSE None
      x     == Group(m.tags[1])
  IN  [level     |-> ByteLen(stars),
       priority  |-> IF m.priority = None THEN None
                     ELSE Some(Head(Group(m.priority[1]))),
       keyword   |-> IF Scans(m) THEN kw ELSE Some(Group(m.keyword[1])),
       title     |-> IF kw = None THEN raw
                     ELSE Trim(Slice(raw, KwdLen(kw[1]), ByteLen(raw))),
       tags      |-> IF m.tags = None THEN <<>>
                     ELSE Split(Slice(x, TagsInner(x)[1], TagsInner(x)[2]), ":"),
       section   |-> None,
       headlines |-> <<>>]

\* ------------------------------------------------------------ the program

\* DocumentParser::new()
Init ==
  /\ text = <<>>
  /\ todo_keywords = <<>>
  /\ pc = "new"
  /\ pos = 1
  /\ captures = <<>>
  /\ headlines = <<>>
  /\ document = None

\* DocumentParser::todo_keywords(keywords)
TodoKeywords ==
  /\ pc = "new"
  /\ \E keywords \in KeywordLists : todo_keywords' = keywords
  /\ UNCHANGED <<text, pc, pos, captures, headlines, document>>

\* parse(text), up to the loop over the matches
Parse ==
  /\ pc = "new"
  /\ \E t \in Texts : text' = t
  /\ pc' = "loop"
  /\ pos' = 1
  /\ captures' = <<>>
  /\ headlines' = <<>>
  /\ UNCHANGED <<todo_keywords, document>>

\* One turn of the loop: the next match, and the headline pushed for it.
NextHeadline ==
  /\ pc = "loop"
  /\ FindFrom(pos) # None
  /\ LET m == MatchAt(FindFrom(pos)[1])
     IN  /\ pos' = m.next
         /\ captures' = Append(captures, m)
         /\ IF Panics(m, todo_keywords)
            THEN pc' = "panic" /\ UNCHANGED headlines
            ELSE pc' = "loop" /\ headlines' = Append(headlines, NewHeadline(m, todo_keywords))
  /\ UNCHANGED <<text, todo_keywords, document>>

\* No match is left: Ok(Document { first_section: None, headlines })
Return ==
  /\ pc = "loop"
  /\ FindFrom(pos) = None
  /\ document' = Some([first_section |-> None, headlines |-> headlines])
  /\ pc' = "done"
  /\ UNCHANGED <<text, todo_keywords, pos, captures, headlines>>

Next ==
  \/ TodoKeywords
  \/ Parse
  \/ NextHeadline
  \/ Return

Spec == Init /\ [][Next]_vars

\* ------------------------------------------------------------ properties

Done == pc = "done"

\* The headlines of a forest in pre-order.
RECURSIVE Preorder(_)
Preorder(hs) ==
  IF hs = <<>> THEN <<>>
  ELSE << Head(hs) >> \o Preorder(Head(hs).headlines) \o Preorder(Tail(hs))

\* The match and the headline of every turn of the loop that pushed one.
Pushed == 1..Len(headlines)

\* Whether the match lies within one line.
OneLine(m) == \A c \in 1..Len(Group(m.span)) : Group(m.span)[c] # NL

EndsWith(s, p) == Len(p) <= Len(s) /\ SubSeq(s, Len(s) - Len(p) + 1, Len(s)) = p

RECURSIVE Join(_)
Join(ts) == IF ts = <<>> THEN <<>> ELSE Head(ts) \o <<":">> \o Join(Tail(ts))

\* C1: in the returned Document a headline is top-level only if no headline
\* before it (in document order) has a smaller level; a headline with a
\* shallower predecessor is a child of the nearest one.
C1_TopLevelOnlyWithoutShallowerPredecessor ==
  Done =>
    LET top == document[1].headlines
        all == Preorder(top)
    IN  \A k \in 1..Len(top) :
          \A j \in 1..Len(Preorder(SubSeq(top, 1, k - 1))) :
            all[j].level >= top[k].level

\* C2: parse never panics and returns Ok(Document), with one headline for
\* every match, whatever the text and the configured keywords.
C2_ParseIsTotal ==
  /\ pc # "panic"
  /\ Len(headlines) = Len(captures)
  /\ Done => document # None /\ document[1].headlines = headlines

\* C2's case: parse returned after stripping a two-byte keyword from the
\* front of a longer title of a one-line headline.
C2_Witness ==
  /\ Done
  /\ \E i \in Pushed :
       /\ OneLine(captures[i])
       /\ captures[i].keyword = None
       /\ headlines[i].keyword = Some(<<Wide>>)
       /\ headlines[i].title # <<>>

\* Non-headline text precedes the first headline.
TextBeforeFirstHeadline ==
  IF captures = <<>> THEN text # <<>> ELSE captures[1].span[1] > 0

\* C3: the leading section of the returned Document is Some exactly when
\* non-headline text precedes the first headline.
C3_LeadingSectionIffTextBeforeFirstHeadline ==
  Done => (document[1].first_section # None <=> TextBeforeFirstHeadline)

\* The star count of a line that starts with stars followed by a space, else 0.
StarLineLevel(line) ==
  LET n == Min({ k \in 0..Len(line) : k = Len(line) \/ line[k + 1] # "*" })
  IN  IF n >= 1 /\ n < Len(line) /\ line[n + 1] = " " THEN n ELSE 0

RECURSIVE StarLineLevels(_)
StarLineLevels(lines) ==
  IF lines = <<>> THEN <<>>
  ELSE (IF StarLineLevel(Head(lines)) > 0 THEN << StarLineLevel(Head(lines)) >> ELSE <<>>)
       \o StarLineLevels(Tail(lines))

\* C4: the levels of the produced headlines, in pre-order, are the star counts
\* of the lines of the text that start with stars followed by a space, one
\* headline for each such line and in the same order.
C4_LevelsAreStarCountsOfHeadlineLines ==
  Done =>
    LET all == Preorder(document[1].headlines)
    IN  [i \in 1..Len(all) |-> all[i].level] = StarLineLevels(Split(text, NL))

\* C5: on a headline line without the explicit KEYWORD+PRIORITY group, a
\* configured keyword is taken only if it is a prefix of the title followed by
\* whitespace or by the end of the title; otherwise keyword is None and the
\* title is unchanged.
C5_FallbackKeywordNeedsWordBoundary ==
  \A i \in Pushed :
    captures[i].keyword = None /\ OneLine(captures[i]) =>
      LET raw == Trim(Group(captures[i].title[1]))
          h   == headlines[i]
      IN  IF h.keyword = None THEN h.title = raw
          ELSE /\ StartsWith(raw, h.keyword[1])
               /\ \/ Len(raw) = Len(h.keyword[1])
                  \/ IsSpace(raw[Len(h.keyword[1]) + 1])

C7_KeywordIsConfigured ==
  \A i \in Pushed :
    headlines[i].keyword # None =>
      \E j \in 1..Len(todo_keywords) : todo_keywords[j] = headlines[i].keyword[1]

\* C8: every tag is a non-empty string of tag characters, a headline has tags
\* exactly when its line ends in a well-formed tag block, and the matched text
\* ends with the title, optional whitespace and the tag block, so that the
\* title holds no character of the block.
C8_TagsWellFormed ==
  \A i \in Pushed :
    LET m == captures[i]
        h == headlines[i]
        matched == Group(m.span)
        block   == <<":">> \o Join(h.tags)
    IN  /\ \A k \in 1..Len(h.tags) :
             /\ h.tags[k] # <<>>
             /\ \A c \in 1..Len(h.tags[k]) : IsTagChar(h.tags[k][c])
        /\ (h.tags # <<>>) <=> (m.tags # None)
        /\ h.tags # <<>> =>
             /\ EndsWith(matched, block)
             /\ EndsWith(TrimEnd(SubSeq(matched, 1, Len(matched) - Len(block))), h.title)

\* C8's case: a headline with a title and a tag block.
C8_Witness ==
  /\ Done
  /\ \E i \in Pushed :
       /\ OneLine(captures[i])
       /\ Len(headlines[i].tags) >= 1
       /\ headlines[i].title # <<>>

\* C9: a match lies within one line: no line terminator inside it.
C9_MatchWithinOneLine ==
  \A i \in 1..Len(captures) : OneLine(captures[i])

CookieKeptInTitle ==
  /\ Done
  /\ \E i \in Pushed :
       /\ OneLine(captures[i])
       /\ headlines[i].priority = None
       /\ StartsWith(headlines[i].title, <<"[", "#", "A", "]">>)

====
